---- MODULE Spec2Model ----
(***************************************************************************)
(* A model of loco's task management module (src/task.rs: Vars, TaskInfo,  *)
(* Task, Tasks) and of the health controller (src/controller/health.rs).   *)
(*                                                                         *)
(* A Rust String is a finite sequence of byte values, ordered as Rust      *)
(* orders it (lexicographically).  A BTreeMap<String, V> is the sequence   *)
(* of its entries in the order its iterators yield them.                   *)
(*                                                                         *)
(* Three specifications share the module, one per component:               *)
(*   Spec        the task registry     (Tasks::register / list / run)      *)
(*   SpecVars    the argument bag      (Vars::from_cli_args / cli_arg)     *)
(*   SpecHealth  the health handler    (controller::health::health)        *)
(***************************************************************************)
EXTENDS Naturals, Sequences, FiniteSets

VARIABLES
    \* ---- Tasks<T> (task.rs:82-84) and what one call on it did
    registry,      \* Tasks::registry : BTreeMap<String, Box<dyn Task<T>>>
    app_context,   \* the shared AppContext<T> that task bodies act on
    op,            \* the last call on the registry: "new", "register", "list", "run"
    arg,           \* the arguments of that call
    ret,           \* what that call returned
    calls,         \* the Task::run invocations that call made, in order
    pre,           \* registry and app_context as they were when that call began
    latest,        \* per name, the capability most recently handed to register
    out_of_order,  \* some registration so far came after one of a greater name
    \* ---- Vars (task.rs:13-16) and what one call on it did
    args,          \* the Vec<(String, String)> handed to from_cli_args
    vars,          \* the Vars built from it (None before construction)
    key,           \* the key of the last cli_arg call
    got,           \* what the last cli_arg call returned
    \* ---- one health request (health.rs:19-34)
    hpc,           \* position of the handler in its body
    queue,         \* ctx.queue : Option<Pool>
    db_ping,       \* outcome of ctx.db.ping().await
    redis_ping,    \* outcome of redis::ping(&pool).await
    is_ok,         \* the local `is_ok`
    log,           \* tracing::error! events emitted by the current request
    pings,         \* the pings the current request has performed, in order
    response,      \* what the handler returned
    requests       \* number of requests served so far

tvars == <<registry, app_context, op, arg, ret, calls, pre, latest, out_of_order>>
vvars == <<args, vars, key, got>>
hvars == <<hpc, queue, db_ping, redis_ping, is_ok, log, pings, response, requests>>
allvars == <<tvars, vvars, hvars>>

(***************************************************************************)
(* Bounds of the model.                                                    *)
(***************************************************************************)
MaxArgs == 3        \* longest pair list handed to from_cli_args
MaxRequests == 4    \* health requests served in one behaviour

(***************************************************************************)
(* Strings.  "a" = <<1>>, "b" = <<2>>; the sample holds the empty string,  *)
(* a proper prefix of another string ("a" < "ab") and a longer string that *)
(* sorts before a shorter one ("ab" < "b").                                *)
(***************************************************************************)
Strings == { <<>>, <<1>>, <<1, 2>>, <<2>> }

\* <String as Ord>::lt : lexicographic on bytes, a proper prefix is smaller
RECURSIVE StrLess(_, _)
StrLess(a, b) ==
    IF a = <<>> THEN b # <<>>
    ELSE IF b = <<>> THEN FALSE
    ELSE IF Head(a) # Head(b) THEN Head(a) < Head(b)
    ELSE StrLess(Tail(a), Tail(b))

\* Option<V>
None == [some |-> FALSE]
Some(v) == [some |-> TRUE, val |-> v]

\* Result<V, Error>
Ok(v) == [ok |-> TRUE, val |-> v]
Err(e) == [ok |-> FALSE, err |-> e]
Unit == "()"

\* format!(template, args..) : the text is the template with its arguments
Format(template, fargs) == [template |-> template, fargs |-> fargs]

\* crate::errors::Error, the two variants task.rs constructs
Message(text) == [kind |-> "Message", text |-> text, name |-> <<>>]
TaskNotFound(name) == [kind |-> "TaskNotFound", text |-> Format("", <<>>), name |-> name]

(***************************************************************************)
(* BTreeMap<String, V>: entries in ascending key order.                    *)
(***************************************************************************)
BTreeNew == <<>>

Entry(k, v) == [key |-> k, value |-> v]

KeyIndex(m, k) == { i \in 1..Len(m) : m[i].key = k }

\* BTreeMap::get
BTreeGet(m, k) ==
    IF KeyIndex(m, k) = {} THEN None
    ELSE Some(m[CHOOSE i \in KeyIndex(m, k) : TRUE].value)

\* BTreeMap::insert : replace the value of an equal key, else insert in order
BTreeInsert(m, k, v) ==
    IF KeyIndex(m, k) # {}
    THEN [m EXCEPT ![CHOOSE i \in KeyIndex(m, k) : TRUE] = Entry(k, v)]
    ELSE LET n == Cardinality({ i \in 1..Len(m) : StrLess(m[i].key, k) })
         IN  SubSeq(m, 1, n) \o <<Entry(k, v)>> \o SubSeq(m, n + 1, Len(m))

\* BTreeMap::values : the values in iteration order
BTreeValues(m) == [i \in 1..Len(m) |-> m[i].value]

(***************************************************************************)
(* Vars                                                                    *)
(***************************************************************************)
\* Vars::from_cli_args : args.into_iter().collect(), i.e. insert pair by pair
RECURSIVE Collect(_, _)
Collect(m, pairs) ==
    IF pairs = <<>> THEN m
    ELSE Collect(BTreeInsert(m, Head(pairs)[1], Head(pairs)[2]), Tail(pairs))

\* a faulty variant: the first occurrence of a key wins
RECURSIVE CollectFirst(_, _)
CollectFirst(m, pairs) ==
    IF pairs = <<>> THEN m
    ELSE CollectFirst(IF KeyIndex(m, Head(pairs)[1]) # {} THEN m
                      ELSE BTreeInsert(m, Head(pairs)[1], Head(pairs)[2]),
                      Tail(pairs))

from_cli_args_first(pairs) == [cli |-> CollectFirst(BTreeNew, pairs)]

from_cli_args(pairs) == [cli |-> Collect(BTreeNew, pairs)]

\* a faulty variant: a missing key yields the empty string instead of an error
cli_arg_default(self, k) ==
    IF BTreeGet(self.cli, k).some THEN Ok(BTreeGet(self.cli, k).val) ELSE Ok("")

\* Vars::cli_arg
cli_arg(self, k) ==
    IF BTreeGet(self.cli, k).some
    THEN Ok(BTreeGet(self.cli, k).val)
    ELSE Err(Message(Format("the argument {key} does not exist", <<k>>)))

(***************************************************************************)
(* Task and Tasks                                                          *)
(***************************************************************************)
\* The implementations of the Task trait the application supplies.  A
\* capability is an implementation together with the name it answers to;
\* its detail text is fixed by the implementation.
Impls == { "A", "B" }
Capabilities == [impl : Impls, name : Strings]

Detail(impl) == IF impl = "A" THEN "detail of A" ELSE "detail of B"

\* Task::task : the TaskInfo of a capability
task(t) == [name |-> t.name, detail |-> Detail(t.impl)]

\* AppContext<T>: the state of the shared resources a task body acts on
Contexts == { "fresh", "written" }

\* What one execution of a task body may do: what it returns and the state
\* it leaves the shared resources in.
TaskReturns ==
    { Ok(Unit),
      Err(Message(Format("task failed", <<>>))),
      Err(Message(Format("the argument {key} does not exist", << <<1>> >>))),
      Err(TaskNotFound(<<2>>)) }
Bodies == [ret : TaskReturns, ctx : Contexts]

\* The argument bags handed to Tasks::run
ArgBags == { from_cli_args(<<>>), from_cli_args(<< <<(<<1>>), "v">> >>) }

\* One invocation of Task::run(&self, app_context, vars) on capability t
Call(t, ctx, v, returned) == [cap |-> t, ctx |-> ctx, vars |-> v, returned |-> returned]

\* Tasks::default
TasksDefault == BTreeNew

\* a faulty variant: a Vec-backed registry that pushes every registration
register_push(self, t) == Append(self, Entry(task(t).name, t))

\* Tasks::register
register(self, t) ==
    LET name == task(t).name
    IN  BTreeInsert(self, name, t)

\* a faulty variant: descriptors in reverse iteration order
list_rev(self) ==
    [i \in 1..Len(self) |-> task(BTreeValues(self)[Len(self) + 1 - i])]

\* Tasks::list
list(self) == [i \in 1..Len(self) |-> task(BTreeValues(self)[i])]

\* a faulty variant: an unknown name falls back to the first registered task
run_fallback(self, ctx, name, v, body) ==
    LET found == IF BTreeGet(self, name).some \/ self = <<>>
                 THEN BTreeGet(self, name) ELSE Some(self[1].value)
    IN  IF ~found.some
        THEN [ret |-> Err(TaskNotFound(name)), calls |-> <<>>, ctx |-> ctx]
        ELSE [ret   |-> IF body.ret.ok THEN Ok(Unit) ELSE body.ret,
              calls |-> <<Call(found.val, ctx, v, body.ret)>>,
              ctx   |-> body.ctx]

\* a faulty variant: a task failure is wrapped in a new message
run_wrap(self, ctx, name, v, body) ==
    LET found == BTreeGet(self, name)
    IN  IF ~found.some
        THEN [ret |-> Err(TaskNotFound(name)), calls |-> <<>>, ctx |-> ctx]
        ELSE [ret   |-> IF body.ret.ok THEN Ok(Unit)
                        ELSE Err(Message(Format("task {name} failed", <<name>>))),
              calls |-> <<Call(found.val, ctx, v, body.ret)>>,
              ctx   |-> body.ctx]

\* a faulty variant: a failed task is run a second time
run_retry(self, ctx, name, v, body) ==
    LET found == BTreeGet(self, name)
    IN  IF ~found.some
        THEN [ret |-> Err(TaskNotFound(name)), calls |-> <<>>, ctx |-> ctx]
        ELSE [ret   |-> IF body.ret.ok THEN Ok(Unit) ELSE body.ret,
              calls |-> IF body.ret.ok
                        THEN <<Call(found.val, ctx, v, body.ret)>>
                        ELSE <<Call(found.val, ctx, v, body.ret),
                               Call(found.val, body.ctx, v, body.ret)>>,
              ctx   |-> body.ctx]

\* Tasks::run, given what the task body does when it is executed:
\*   let task = self.registry.get(task).ok_or_else(|| TaskNotFound(..))?;
\*   task.run(app_context, vars).await?;
\*   Ok(())
run(self, ctx, name, v, body) ==
    LET found == BTreeGet(self, name)
    IN  IF ~found.some
        THEN [ret |-> Err(TaskNotFound(name)), calls |-> <<>>, ctx |-> ctx]
        ELSE [ret   |-> IF body.ret.ok THEN Ok(Unit) ELSE body.ret,
              calls |-> <<Call(found.val, ctx, v, body.ret)>>,
              ctx   |-> body.ctx]

Snapshot == [registry |-> registry, app_context |-> app_context]

InitTasks ==
    /\ registry = TasksDefault
    /\ app_context = "fresh"
    /\ op = "new"
    /\ arg = [none |-> TRUE]
    /\ ret = Unit
    /\ calls = <<>>
    /\ pre = [registry |-> TasksDefault, app_context |-> "fresh"]
    /\ latest = [n \in Strings |-> None]
    /\ out_of_order = FALSE

\* tasks.register(t)
Register ==
    \E t \in Capabilities :
        /\ registry' = register(registry, t)
        /\ latest' = [latest EXCEPT ![task(t).name] = Some(t)]
        /\ out_of_order' = (out_of_order
                               \/ \E n \in Strings : latest[n].some /\ StrLess(task(t).name, n))
        /\ op' = "register"
        /\ arg' = [cap |-> t]
        /\ ret' = Unit
        /\ calls' = <<>>
        /\ pre' = Snapshot
        /\ UNCHANGED <<app_context, vvars, hvars>>

\* tasks.list()
List ==
    /\ op' = "list"
    /\ arg' = [none |-> TRUE]
    /\ ret' = list(registry)
    /\ calls' = <<>>
    /\ pre' = Snapshot
    /\ UNCHANGED <<registry, app_context, latest, out_of_order, vvars, hvars>>

\* a faulty variant: a task is dropped from the registry once it has been run
Run_once ==
    \E name \in Strings, v \in ArgBags, body \in Bodies :
        LET r == run(registry, app_context, name, v, body)
        IN  /\ op' = "run"
            /\ arg' = [task |-> name, vars |-> v]
            /\ ret' = r.ret
            /\ calls' = r.calls
            /\ app_context' = r.ctx
            /\ pre' = Snapshot
            /\ registry' = SelectSeq(registry, LAMBDA e : e.key # name)
            /\ UNCHANGED <<latest, out_of_order, vvars, hvars>>

\* tasks.run(&app_context, name, &vars).await
Run ==
    \E name \in Strings, v \in ArgBags, body \in Bodies :
        LET r == run(registry, app_context, name, v, body)
        IN  /\ op' = "run"
            /\ arg' = [task |-> name, vars |-> v]
            /\ ret' = r.ret
            /\ calls' = r.calls
            /\ app_context' = r.ctx
            /\ pre' = Snapshot
            /\ UNCHANGED <<registry, latest, out_of_order, vvars, hvars>>


(***************************************************************************)
(* One Vars value: built once from a pair list, then read.                 *)
(***************************************************************************)
ArgKeys == { <<1>>, <<2>> }
ArgValues == { "v", "w" }
Pairs == { <<k, v>> : k \in ArgKeys, v \in ArgValues }
PairLists == UNION { [1..n -> Pairs] : n \in 0..MaxArgs }

InitVars ==
    /\ args \in PairLists
    /\ vars = None
    /\ key = <<>>
    /\ got = None

\* let vars = Vars::from_cli_args(args);
FromCliArgs ==
    /\ ~vars.some
    /\ vars' = Some(from_cli_args(args))
    /\ UNCHANGED <<args, key, got, tvars, hvars>>

\* vars.cli_arg(k)
CliArg ==
    \E k \in Strings :
        /\ vars.some
        /\ key' = k
        /\ got' = Some(cli_arg(vars.val, k))
        /\ UNCHANGED <<args, vars, tvars, hvars>>

(***************************************************************************)
(* The health handler.  It suspends at each ping, so a request is a        *)
(* sequence of steps; `hpc` is the position in the body of `health`.       *)
(***************************************************************************)
\* Outcomes of ctx.db.ping().await and of redis::ping(&pool).await
DbPingResults == { Ok(Unit), Err("db: connection refused"), Err("db: timed out") }
RedisPingResults == { Ok(Unit), Err("redis: connection refused"), Err("redis: timed out") }

\* tracing::error!(err.msg = %error, err.detail = ?error, message)
ErrorEvent(message, error) == [level |-> "ERROR", message |-> message, error |-> error]

\* format::json(Health { ok }) : a successful JSON response with that body
format_json(body) == Ok([json |-> body])

InitHealth ==
    /\ hpc = "idle"
    /\ queue \in { None, Some("pool") }
    /\ db_ping = None
    /\ redis_ping = None
    /\ is_ok = FALSE
    /\ log = <<>>
    /\ pings = <<>>
    /\ response = None
    /\ requests = 0

\* GET /_health arrives and the handler is entered
Request ==
    /\ hpc = "idle"
    /\ requests < MaxRequests
    /\ requests' = requests + 1
    /\ hpc' = "db"
    /\ db_ping' = None
    /\ redis_ping' = None
    /\ is_ok' = FALSE
    /\ log' = <<>>
    /\ pings' = <<>>
    /\ response' = None
    /\ UNCHANGED <<queue, tvars, vvars>>

\* a faulty variant: a failed database ping is propagated with `?`
DbPing_abort ==
    \E r \in DbPingResults :
        /\ hpc = "db"
        /\ db_ping' = Some(r)
        /\ pings' = Append(pings, "db")
        /\ is_ok' = r.ok
        /\ log' = log
        /\ IF r.ok THEN hpc' = "queue" /\ response' = response
                   ELSE hpc' = "idle" /\ response' = Some(r)
        /\ UNCHANGED <<queue, redis_ping, requests, tvars, vvars>>

\* let mut is_ok = match ctx.db.ping().await { Ok(()) => true, Err(error) => {log; false} };
DbPing ==
    \E r \in DbPingResults :
        /\ hpc = "db"
        /\ db_ping' = Some(r)
        /\ pings' = Append(pings, "db")
        /\ is_ok' = r.ok
        /\ log' = IF r.ok THEN log
                  ELSE Append(log, ErrorEvent("health_db_ping_error", r.err))
        /\ hpc' = "queue"
        /\ UNCHANGED <<queue, redis_ping, response, requests, tvars, vvars>>

\* if let Some(pool) = ctx.queue : no queue is configured
NoQueue ==
    /\ hpc = "queue"
    /\ ~queue.some
    /\ hpc' = "respond"
    /\ UNCHANGED <<queue, db_ping, redis_ping, is_ok, log, pings, response, requests,
                   tvars, vvars>>

\* a faulty variant: the queue ping decides is_ok on its own
RedisPing_overwrite ==
    \E r \in RedisPingResults :
        /\ hpc = "queue"
        /\ queue.some
        /\ redis_ping' = Some(r)
        /\ pings' = Append(pings, "redis")
        /\ is_ok' = r.ok
        /\ log' = IF r.ok THEN log
                  ELSE Append(log, ErrorEvent("health_redis_ping_error", r.err))
        /\ hpc' = "respond"
        /\ UNCHANGED <<queue, db_ping, response, requests, tvars, vvars>>

\* if let Some(pool) = ctx.queue { if let Err(error) = redis::ping(&pool).await {log; is_ok = false} }
RedisPing ==
    \E r \in RedisPingResults :
        /\ hpc = "queue"
        /\ queue.some
        /\ redis_ping' = Some(r)
        /\ pings' = Append(pings, "redis")
        /\ is_ok' = IF r.ok THEN is_ok ELSE FALSE
        /\ log' = IF r.ok THEN log
                  ELSE Append(log, ErrorEvent("health_redis_ping_error", r.err))
        /\ hpc' = "respond"
        /\ UNCHANGED <<queue, db_ping, response, requests, tvars, vvars>>

\* format::json(Health { ok: is_ok })
Respond ==
    /\ hpc = "respond"
    /\ response' = Some(format_json([ok |-> is_ok]))
    /\ hpc' = "idle"
    /\ UNCHANGED <<queue, db_ping, redis_ping, is_ok, log, pings, requests, tvars, vvars>>

(***************************************************************************)
(* The specifications.  Each component runs with the others at rest.       *)
(***************************************************************************)
VarsAtRest == args = <<>> /\ vars = None /\ key = <<>> /\ got = None

HealthAtRest ==
    /\ hpc = "idle" /\ queue = None /\ db_ping = None /\ redis_ping = None
    /\ is_ok = FALSE /\ log = <<>> /\ pings = <<>> /\ response = None /\ requests = 0

Init == InitTasks /\ VarsAtRest /\ HealthAtRest
Next == Register \/ List \/ Run
Spec == Init /\ [][Next]_allvars

InitV == InitVars /\ InitTasks /\ HealthAtRest
NextVars == FromCliArgs \/ CliArg
SpecVars == InitV /\ [][NextVars]_allvars

InitH == InitHealth /\ InitTasks /\ VarsAtRest
NextHealth == Request \/ DbPing \/ NoQueue \/ RedisPing \/ Respond
SpecHealth == InitH /\ [][NextHealth]_allvars

(***************************************************************************)
(* Properties of the task registry (checked under Spec).                   *)
(***************************************************************************)
Registered == { n \in Strings : latest[n].some }

\* C1: list() returns one descriptor per registered name, and the sequence
\* is strictly ascending by name, whatever the order of the registrations.
C1_ListSortedByName ==
    op = "list" =>
        /\ \A i \in 1..Len(ret) : \A j \in 1..Len(ret) :
               i < j => StrLess(ret[i].name, ret[j].name)
        /\ { ret[i].name : i \in 1..Len(ret) } = Registered
        /\ Len(ret) = Cardinality(Registered)

\* list() has returned three descriptors whose names were registered in an
\* order other than ascending
C1_Witness ==
    /\ op = "list"
    /\ Len(ret) >= 3
    /\ out_of_order

\* C2: a registration under a name already present replaces the earlier
\* capability: one entry per name in every state, the entry of the name is
\* the capability registered last, list() shows its descriptor, run()
\* dispatches to it, and register leaves the other names' entries alone.
C2_RegisterReplaces ==
    /\ \A n \in Strings : Cardinality(KeyIndex(registry, n)) <= 1
    /\ \A n \in Strings : BTreeGet(registry, n) = latest[n]
    /\ op = "register" =>
           /\ BTreeGet(registry, task(arg.cap).name) = Some(arg.cap)
           /\ \A n \in Strings \ { task(arg.cap).name } :
                  BTreeGet(registry, n) = BTreeGet(pre.registry, n)
    /\ op = "list" =>
           \A i \in 1..Len(ret) :
               /\ latest[ret[i].name].some
               /\ ret[i] = task(latest[ret[i].name].val)
    /\ (op = "run" /\ latest[arg.task].some) =>
           \A i \in 1..Len(calls) : calls[i].cap = latest[arg.task].val

\* register(B) has just replaced a different capability A of the same name
C2_Witness ==
    /\ op = "register"
    /\ BTreeGet(pre.registry, task(arg.cap).name).some
    /\ BTreeGet(pre.registry, task(arg.cap).name).val # arg.cap
    /\ Len(registry) >= 2

\* C3: run() on a name with no registered capability fails with
\* TaskNotFound carrying that name, runs no task, and leaves the
\* application context as it was.
C3_UnknownTaskNotFound ==
    (op = "run" /\ ~latest[arg.task].some) =>
        /\ ret = Err(TaskNotFound(arg.task))
        /\ calls = <<>>
        /\ app_context = pre.app_context

\* run() was asked for an unregistered name while other tasks are registered
C3_Witness ==
    /\ op = "run"
    /\ ~latest[arg.task].some
    /\ Len(registry) >= 2
    /\ app_context = "written"

\* C4: when the dispatched capability fails, run() returns that very error;
\* when it succeeds, run() returns success.
C4_TaskResultVerbatim ==
    (op = "run" /\ latest[arg.task].some) =>
        /\ calls # <<>>
        /\ LET returned == calls[Len(calls)].returned
           IN  IF returned.ok THEN ret = Ok(Unit) ELSE ret = returned

\* run() has returned a task's own message failure
C4_Witness ==
    /\ op = "run"
    /\ latest[arg.task].some
    /\ ~ret.ok
    /\ ret.err.kind = "Message"

\* C9: run() on a registered name executes the capability registered under
\* exactly that name, once, with the context and the argument bag it was
\* given, and executes no other capability.
C9_OneShotDispatch ==
    (op = "run" /\ latest[arg.task].some) =>
        /\ Len(calls) = 1
        /\ calls[1].cap = latest[arg.task].val
        /\ task(calls[1].cap).name = arg.task
        /\ calls[1].ctx = pre.app_context
        /\ calls[1].vars = arg.vars

\* run() has dispatched a failing task while several tasks are registered
C9_Witness ==
    /\ op = "run"
    /\ latest[arg.task].some
    /\ Len(registry) >= 2
    /\ ~ret.ok
    /\ arg.vars.cli # <<>>

\* C10: run() and list() leave the registry as it was; register() changes
\* the entry of the registered name only.
C10_RegistryFrame ==
    /\ op \in { "run", "list" } => registry = pre.registry
    /\ op = "register" =>
           \A n \in Strings \ { task(arg.cap).name } :
               BTreeGet(registry, n) = BTreeGet(pre.registry, n)

\* a failed run() on a populated registry
C10_Witness ==
    /\ op = "run"
    /\ ~ret.ok
    /\ calls # <<>>
    /\ Len(registry) >= 2

(***************************************************************************)
(* Properties of the argument bag (checked under SpecVars).                *)
(***************************************************************************)
Occurs(k) == { i \in 1..Len(args) : args[i][1] = k }

Last(S) == CHOOSE i \in S : \A j \in S : j <= i

\* the typed error the specification names; the Error of task.rs has no
\* such variant in use
MissingArgument(k) == [kind |-> "MissingArgument", text |-> Format("", <<>>), name |-> k]

\* C5 as stated: a missing key fails with the typed error
\* MissingArgument(key), of another kind than a message failure.
C5_AsStated ==
    got.some =>
        IF Occurs(key) # {}
        THEN got.val.ok /\ \E i \in Occurs(key) : got.val.val = args[i][2]
        ELSE /\ got.val = Err(MissingArgument(key))
             /\ got.val.err.kind # "Message"

\* C5, amended: cli_arg(key) returns a stored value when the key occurs in
\* the pairs and fails when it does not; the failure is the general
\* Error::Message whose text names the requested key.
C5_MissingKeyIsMessage ==
    got.some =>
        IF Occurs(key) # {}
        THEN got.val.ok /\ \E i \in Occurs(key) : got.val.val = args[i][2]
        ELSE /\ got.val = Err(Message(Format("the argument {key} does not exist", <<key>>)))
             /\ got.val.err.kind = "Message"

\* cli_arg was asked for a key that a non-empty pair list does not hold
C5_Witness ==
    /\ got.some
    /\ args # <<>>
    /\ Occurs(key) = {}
    /\ ~got.val.ok

\* C6: cli_arg(k) returns the value of the last pair whose key is k, and
\* the bag holds exactly one entry per distinct key.
C6_LastWriteWins ==
    /\ vars.some =>
           \A k \in Strings :
               Cardinality(KeyIndex(vars.val.cli, k)) = IF Occurs(k) # {} THEN 1 ELSE 0
    /\ (got.some /\ Occurs(key) # {}) =>
           got.val = Ok(args[Last(Occurs(key))][2])

\* cli_arg was asked for a key that occurs twice with different values
C6_Witness ==
    /\ got.some
    /\ \E i \in Occurs(key) : \E j \in Occurs(key) : i < j /\ args[i][2] # args[j][2]
    /\ got.val.ok

(***************************************************************************)
(* Properties of the health handler (checked under SpecHealth).            *)
(***************************************************************************)
Responded == hpc = "idle" /\ response.some

\* C7: the handler returns normally, and ok is true exactly when the
\* database ping succeeded and, with a queue configured, the queue ping
\* succeeded too.
C7_OkIffAllPingsSucceed ==
    /\ hpc # "idle" => ENABLED (DbPing \/ NoQueue \/ RedisPing \/ Respond)
    /\ (hpc = "idle" /\ requests > 0) => response.some
    /\ Responded =>
           /\ response.val.ok
           /\ db_ping.some
           /\ queue.some => redis_ping.some
           /\ response.val.val.json.ok =
                  (db_ping.val.ok /\ (queue.some => redis_ping.val.ok))
           /\ ~queue.some => response.val.val.json.ok = db_ping.val.ok

\* a response after the database ping failed and the queue ping succeeded
C7_Witness ==
    /\ Responded
    /\ queue.some
    /\ ~db_ping.val.ok
    /\ redis_ping.val.ok

Failures ==
    (IF db_ping.some /\ ~db_ping.val.ok THEN 1 ELSE 0)
        + (IF redis_ping.some /\ ~redis_ping.val.ok THEN 1 ELSE 0)

\* C8: a failing ping does not end the check: with a queue configured the
\* queue is pinged after the database whatever the database ping returned;
\* each failing ping emits exactly one error event and a succeeding ping
\* none; once the database ping has failed, is_ok stays false.
C8_FailingPingDoesNotAbort ==
    /\ Responded => pings = IF queue.some THEN <<"db", "redis">> ELSE <<"db">>
    /\ Len(log) = Failures
    /\ \A i \in 1..Len(log) : log[i].level = "ERROR"
    /\ (db_ping.some /\ ~db_ping.val.ok) =>
           /\ log[1] = ErrorEvent("health_db_ping_error", db_ping.val.err)
           /\ ~is_ok
    /\ (redis_ping.some /\ ~redis_ping.val.ok) =>
           log[Len(log)] = ErrorEvent("health_redis_ping_error", redis_ping.val.err)

\* both pings of one request failed
C8_Witness ==
    /\ Responded
    /\ queue.some
    /\ ~db_ping.val.ok
    /\ ~redis_ping.val.ok
    /\ Len(log) = 2

====
